---- MODULE Spec2Model ----
(***************************************************************************)
(* Model of the booking / availability core of calendar_app/main.py.       *)
(*                                                                         *)
(* Time is counted in ticks.  A day has DayLen ticks; a datetime is the    *)
(* integer date * DayLen + time-of-day, so datetime.combine, .time() and   *)
(* func.date() are Combine, TimeOf and DateOf.  Rows of a table are the    *)
(* elements of a sequence and the primary key of a row is its index.       *)
(***************************************************************************)
EXTENDS Integers, Sequences, FiniteSets, TLC

VARIABLES slots, events, exceptions, bookings, consumers, referrals, profiles,
          working_hours, preferences, inflight, last

vars == <<slots, events, exceptions, bookings, consumers, referrals, profiles,
          working_hours, preferences, inflight, last>>

tables == <<slots, events, exceptions, bookings, consumers, referrals, profiles,
            working_hours, preferences>>

----------------------------------------------------------------------------
(* Bounds of the model *)

DayLen == 4
MaxSlots == 1
MaxEvents == 1
MaxBookings == 2
MaxBuffer == 1
MaxWorkers == 2

(* BookingCreate.time_must_be_business_hours: 6 <= hour < 23, in ticks *)
EarliestStart == 1
LatestStart == 3

None == 0

----------------------------------------------------------------------------
(* Populated reference tables: specialists and their services *)

Specialists == {1, 2}

Services == <<[specialist_id |-> 1, duration |-> 1],
              [specialist_id |-> 1, duration |-> 2],
              [specialist_id |-> 2, duration |-> 1]>>

DefaultDuration == 1

----------------------------------------------------------------------------
(* Temporal primitives *)

Combine(d, t) == d * DayLen + t

DateOf(dt) == dt \div DayLen

TimeOf(dt) == dt % DayLen

(* Optional values of the calendar records: Python's None is the empty     *)
(* set and a value x is {x}, so that None, "" and 0 stay distinct.          *)
Null == {}

Some(x) == {x}

The(o) == CHOOSE x \in o : TRUE

(* date.weekday(): 0 is Monday; date 0 is a Monday *)
DaysPerWeek == 7

Weekday(d) == d % DaysPerWeek

----------------------------------------------------------------------------
(* Contact normalisation.  A string is a sequence of one-character         *)
(* strings.  Python's None and "" are both falsy and the code only ever    *)
(* tests an optional string for truthiness, so both are the empty string.  *)

NoneStr == <<>>

Digits == {"1", "2"}

LowerChar(c) == IF c = "J" THEN "j" ELSE IF c = "K" THEN "k" ELSE c

IsSpace(c) == c = " "

RECURSIVE LStrip(_)
LStrip(s) == IF s # <<>> /\ IsSpace(Head(s)) THEN LStrip(Tail(s)) ELSE s

RECURSIVE RStrip(_)
RStrip(s) ==
    IF s # <<>> /\ IsSpace(s[Len(s)]) THEN RStrip(SubSeq(s, 1, Len(s) - 1)) ELSE s

Strip(s) == RStrip(LStrip(s))

Lower(s) == [i \in DOMAIN s |-> LowerChar(s[i])]

Truthy(s) == s # NoneStr

(* normalize_email without the lower-casing *)
normalize_email_case_sensitive(email) ==
    IF ~Truthy(email) THEN NoneStr ELSE Strip(email)

normalize_email(email) == IF ~Truthy(email) THEN NoneStr ELSE Lower(Strip(email))

normalize_phone(phone) ==
    IF ~Truthy(phone) THEN NoneStr ELSE SelectSeq(phone, LAMBDA c : c \in Digits)

find_matching_consumers(cons, email, phone) ==
    IF ~Truthy(email) /\ ~Truthy(phone) THEN <<>>
    ELSE LET norm_email == normalize_email(email)
             norm_phone == normalize_phone(phone)
             Matched(i) ==
                 \/ Truthy(norm_email) /\ normalize_email(cons[i].email) = norm_email
                 \/ Truthy(norm_phone) /\ normalize_phone(cons[i].phone) = norm_phone
             ids == [i \in DOMAIN cons |-> i]
         IN SelectSeq(ids, Matched)

----------------------------------------------------------------------------
(* Conflict detector *)

has_calendar_conflict(evs, specialist_id, start_datetime, end_datetime, exclude_event_id) ==
    LET conflicting_events ==
            {i \in DOMAIN evs :
                /\ evs[i].specialist_id = specialist_id
                /\ evs[i].is_active
                /\ evs[i].start_datetime < end_datetime
                /\ evs[i].end_datetime > start_datetime
                /\ (exclude_event_id # None => i # exclude_event_id)}
    IN \E i \in conflicting_events :
          LET buffered_start == evs[i].start_datetime - evs[i].buffer_before
              buffered_end == evs[i].end_datetime + evs[i].buffer_after
          IN buffered_start < end_datetime /\ buffered_end > start_datetime

----------------------------------------------------------------------------
(* Recurrence expansion *)

DefaultHorizonDays == 730
FallbackHorizonDays == 365
FallbackMaxCount == 100

(* dateutil's rrule for DAILY and WEEKLY rules with the default week start *)
(* (Monday): does the rule select this date, dtstart being on date d0      *)
rrule_selects(freq, interval, byweekday, d0, d) ==
    /\ d >= d0
    /\ IF freq = "DAILY"
       THEN /\ (d - d0) % interval = 0
            /\ byweekday = {} \/ Weekday(d) \in byweekday
       ELSE /\ ((d - (d0 - Weekday(d0))) \div DaysPerWeek) % interval = 0
            /\ IF byweekday = {} THEN Weekday(d) = Weekday(d0)
               ELSE Weekday(d) \in byweekday

(* list(rrule(...)): the selected dates from d on, up to the date until or *)
(* until count of them are produced (count is Null when until is given)    *)
RECURSIVE rrule(_, _, _, _, _, _, _)
rrule(freq, interval, byweekday, d0, until, count, d) ==
    IF (until # Null /\ d > The(until)) \/ (until = Null /\ The(count) = 0) THEN <<>>
    ELSE IF rrule_selects(freq, interval, byweekday, d0, d)
    THEN <<d>> \o rrule(freq, interval, byweekday, d0, until,
                        IF until = Null THEN Some(The(count) - 1) ELSE count, d + 1)
    ELSE rrule(freq, interval, byweekday, d0, until, count, d + 1)

(* The rows generate_recurring_event_instances adds for a list of          *)
(* occurrence dates: an occurrence is dropped when has_calendar_conflict   *)
(* finds an event among the committed rows; rows added by this call are    *)
(* pending in the session (autoflush is off) and are not seen by the query *)
(* db_instance ending every occurrence one tick after its start *)
db_instance_unit_length(base_event, occurrence_start) ==
    [base_event EXCEPT !.start_datetime = occurrence_start,
                       !.end_datetime = occurrence_start + 1,
                       !.is_recurring = FALSE,
                       !.original_start = Some(occurrence_start),
                       !.is_active = TRUE]

db_instance(base_event, occurrence_start) ==
    LET duration == base_event.end_datetime - base_event.start_datetime
        occurrence_end == occurrence_start + duration
    IN [base_event EXCEPT !.start_datetime = occurrence_start,
                          !.end_datetime = occurrence_end,
                          !.is_recurring = FALSE,
                          !.original_start = Some(occurrence_start),
                          !.is_active = TRUE]

(* instances materialising every occurrence without the conflict test *)
RECURSIVE instances_unchecked(_, _, _)
instances_unchecked(committed, base_event, dates) ==
    IF dates = <<>> THEN <<>>
    ELSE <<db_instance(base_event,
                       Combine(Head(dates), TimeOf(base_event.start_datetime)))>>
         \o instances_unchecked(committed, base_event, Tail(dates))

RECURSIVE instances(_, _, _)
instances(committed, base_event, dates) ==
    IF dates = <<>> THEN <<>>
    ELSE LET duration == base_event.end_datetime - base_event.start_datetime
             occurrence_start == Combine(Head(dates), TimeOf(base_event.start_datetime))
             occurrence_end == occurrence_start + duration
         IN (IF ~has_calendar_conflict(committed, base_event.specialist_id,
                                       occurrence_start, occurrence_end, None)
             THEN <<db_instance(base_event, occurrence_start)>>
             ELSE <<>>)
            \o instances(committed, base_event, Tail(dates))

RECURSIVE simple_dates(_, _, _, _, _)
simple_dates(recurrence_rule, end_date, max_count, current_date, count) ==
    IF current_date <= end_date /\ count < max_count
    THEN IF recurrence_rule.freq \notin {"DAILY", "WEEKLY"} THEN <<>>
         ELSE LET next_date ==
                      IF recurrence_rule.freq = "DAILY"
                      THEN current_date + recurrence_rule.interval
                      ELSE current_date + DaysPerWeek * recurrence_rule.interval
              IN (IF next_date <= end_date THEN <<next_date>> ELSE <<>>)
                 \o simple_dates(recurrence_rule, end_date, max_count, next_date, count + 1)
    ELSE <<>>

generate_simple_recurring_instances(committed, base_event, recurrence_rule) ==
    LET current_date == DateOf(base_event.start_datetime)
        end_date == IF recurrence_rule.until # Null THEN The(recurrence_rule.until)
                    ELSE current_date + FallbackHorizonDays
        max_count == IF recurrence_rule.count \notin {Null, Some(0)}
                     THEN The(recurrence_rule.count) ELSE FallbackMaxCount
    IN committed \o instances(committed, base_event,
                              simple_dates(recurrence_rule, end_date, max_count,
                                           current_date, 0))

generate_recurring_event_instances(committed, base_event, recurrence_rule, DATEUTIL_AVAILABLE) ==
    IF ~DATEUTIL_AVAILABLE
    THEN generate_simple_recurring_instances(committed, base_event, recurrence_rule)
    ELSE LET freq == IF recurrence_rule.freq = "DAILY" THEN "DAILY" ELSE "WEEKLY"
             d0 == DateOf(base_event.start_datetime)
             until == IF recurrence_rule.until # Null THEN recurrence_rule.until
                      ELSE IF recurrence_rule.count \notin {Null, Some(0)} THEN Null
                      ELSE Some(d0 + DefaultHorizonDays)
             occurrences == rrule(freq, recurrence_rule.interval,
                                  recurrence_rule.byweekday, d0, until,
                                  recurrence_rule.count, d0)
         IN committed \o instances(committed, base_event,
                                   IF occurrences = <<>> THEN <<>> ELSE Tail(occurrences))

----------------------------------------------------------------------------
(* Booking command: validation of the request and the four preconditions *)

BookingCreateValid(req) ==
    /\ req.specialist_id > 0
    /\ req.service_id > 0
    /\ req.start_time >= EarliestStart
    /\ req.start_time < LatestStart
    /\ Truthy(req.client_email)

ErrSpecialist == [status |-> 404, detail |-> "Specialist not found"]
ErrService == [status |-> 404, detail |-> "Service not found for this specialist"]
ErrNoAvailability ==
    [status |-> 404, detail |-> "No availability slot covers the requested time"]
ErrConflict == [status |-> 400, detail |-> "Time slot conflicts with existing booking"]
ErrInternal == [status |-> 500, detail |-> "Internal server error"]
ErrInvalidStatus == [status |-> 400, detail |-> "Invalid status"]
ErrBookingNotFound == [status |-> 404, detail |-> "Booking not found"]
ErrEventNotFound == [status |-> 404, detail |-> "Event not found"]
ErrServiceMissing == [status |-> 404, detail |-> "Service not found"]
Ok == [status |-> 200, detail |-> "ok"]

SpecialistFound(req) == req.specialist_id \in Specialists

ServiceFound(req) ==
    /\ req.service_id \in DOMAIN Services
    /\ Services[req.service_id].specialist_id = req.specialist_id

(* ValidSlotFound testing only that the booking starts inside the window *)
ValidSlotFound_start_only(sl, evs, req) ==
    LET booking_start == Combine(req.booking_date, req.start_time)
    IN \/ \E i \in DOMAIN sl :
             /\ sl[i].specialist_id = req.specialist_id
             /\ sl[i].date = req.booking_date
             /\ sl[i].is_available
             /\ booking_start >= Combine(sl[i].date, sl[i].start_time)
             /\ booking_start < Combine(sl[i].date, sl[i].end_time)
       \/ \E j \in DOMAIN evs :
             /\ evs[j].specialist_id = req.specialist_id
             /\ evs[j].event_type = "availability"
             /\ evs[j].status = "confirmed"
             /\ evs[j].is_active
             /\ DateOf(evs[j].start_datetime) = req.booking_date
             /\ booking_start >= evs[j].start_datetime
             /\ booking_start < evs[j].end_datetime

ValidSlotFound(sl, evs, req) ==
    LET booking_start == Combine(req.booking_date, req.start_time)
        booking_end == booking_start + Services[req.service_id].duration
    IN \/ \E i \in DOMAIN sl :
             /\ sl[i].specialist_id = req.specialist_id
             /\ sl[i].date = req.booking_date
             /\ sl[i].is_available
             /\ booking_start >= Combine(sl[i].date, sl[i].start_time)
             /\ booking_end <= Combine(sl[i].date, sl[i].end_time)
       \/ \E j \in DOMAIN evs :
             /\ evs[j].specialist_id = req.specialist_id
             /\ evs[j].event_type = "availability"
             /\ evs[j].status = "confirmed"
             /\ evs[j].is_active
             /\ DateOf(evs[j].start_datetime) = req.booking_date
             /\ booking_start >= evs[j].start_datetime
             /\ booking_end <= evs[j].end_datetime

ExistingBookingFound(bks, req) ==
    LET booking_start == Combine(req.booking_date, req.start_time)
        booking_end == booking_start + Services[req.service_id].duration
    IN \E b \in DOMAIN bks :
          /\ bks[b].specialist_id = req.specialist_id
          /\ bks[b].date = req.booking_date
          /\ bks[b].status = "confirmed"
          /\ bks[b].start_time < TimeOf(booking_end)
          /\ bks[b].end_time > TimeOf(booking_start)

(* Preconditions with the booking conflict tested before the availability *)
Preconditions_conflict_first(sl, evs, bks, req) ==
    IF ~SpecialistFound(req) THEN ErrSpecialist
    ELSE IF ~ServiceFound(req) THEN ErrService
    ELSE IF ExistingBookingFound(bks, req) THEN ErrConflict
    ELSE IF ~ValidSlotFound(sl, evs, req) THEN ErrNoAvailability
    ELSE Ok

Preconditions(sl, evs, bks, req) ==
    IF ~SpecialistFound(req) THEN ErrSpecialist
    ELSE IF ~ServiceFound(req) THEN ErrService
    ELSE IF ~ValidSlotFound(sl, evs, req) THEN ErrNoAvailability
    ELSE IF ExistingBookingFound(bks, req) THEN ErrConflict
    ELSE Ok

----------------------------------------------------------------------------
(* Booking command: the writes of one session, commit and rollback *)

get_next_client_rank(profs, specialist_id) ==
    LET scores == {profs[i].score : i \in {k \in DOMAIN profs : profs[k].specialist_id = specialist_id}}
        max_rank == IF scores = {} THEN 0 ELSE CHOOSE m \in scores : \A x \in scores : x <= m
    IN max_rank + 1

Committed == [consumers |-> consumers, referrals |-> referrals,
              profiles |-> profiles, bookings |-> bookings]

SessionWrites(db, req) ==
    LET matching_consumers ==
            find_matching_consumers(db.consumers, req.client_email, req.client_phone)
        is_new == matching_consumers = <<>>
        consumer_id == IF is_new THEN Len(db.consumers) + 1 ELSE matching_consumers[1]
        booking_start == Combine(req.booking_date, req.start_time)
        booking_end == booking_start + Services[req.service_id].duration
        db_booking == [specialist_id |-> req.specialist_id,
                       service_id |-> req.service_id,
                       consumer_id |-> consumer_id,
                       client_email |-> req.client_email,
                       client_phone |-> req.client_phone,
                       date |-> req.booking_date,
                       start_time |-> req.start_time,
                       end_time |-> TimeOf(booking_end),
                       status |-> "confirmed"]
    IN [consumers |->
            IF is_new
            THEN Append(db.consumers, [email |-> req.client_email, phone |-> req.client_phone])
            ELSE db.consumers,
        referrals |->
            IF is_new
            THEN Append(db.referrals, [consumer_id |-> consumer_id,
                                       specialist_id |-> req.specialist_id])
            ELSE db.referrals,
        profiles |->
            IF is_new
            THEN Append(db.profiles,
                        [specialist_id |-> req.specialist_id,
                         consumer_id |-> consumer_id,
                         score |-> get_next_client_rank(db.profiles, req.specialist_id)])
            ELSE db.profiles,
        bookings |-> Append(db.bookings, db_booking)]

Commit(committed, session) == session

Rollback(committed, session) == committed

----------------------------------------------------------------------------
(* Requests *)

Dates == 0 .. 1

Contacts == {[client_email |-> <<"J">>, client_phone |-> <<"1">>],
             [client_email |-> <<"j">>, client_phone |-> <<"-">>],
             [client_email |-> <<"k">>, client_phone |-> <<"-", "1">>]}

BookingRequests(specialist_ids, service_ids, contacts) ==
    {[specialist_id |-> sp, service_id |-> svc, booking_date |-> d, start_time |-> t,
      client_email |-> c.client_email, client_phone |-> c.client_phone] :
        sp \in specialist_ids, svc \in service_ids, d \in Dates,
        t \in 0 .. DayLen - 1, c \in contacts}

AllRequests == BookingRequests(Specialists \cup {3}, DOMAIN Services \cup {4}, Contacts)

----------------------------------------------------------------------------
(* Worker threads of the request pool *)

Workers == 1 .. MaxWorkers

Idle == [pc |-> "idle"]

(* Initial state: no availability, no events, no bookings, no consumers *)

Init ==
    /\ slots = <<>>
    /\ events = <<>>
    /\ exceptions = <<>>
    /\ bookings = <<>>
    /\ consumers = <<>>
    /\ referrals = <<>>
    /\ profiles = <<>>
    /\ working_hours = <<>>
    /\ preferences = <<>>
    /\ inflight = [w \in Workers |-> Idle]
    /\ last = [op |-> "init", response |-> Ok]

(* POST /booking/ as one transaction on the committed tables.  fault: an   *)
(* exception raised by a database call after the preconditions passed,     *)
(* either up to and including db.commit() or by db.refresh() after it.     *)
(* Every exception reaches the handler's except block, which rolls back    *)
(* what is not committed yet and answers with an error.  The result is the *)
(* committed tables afterwards and the response.                           *)
Faults == {"none", "before_commit", "after_commit"}

create_booking_txn(sl, evs, committed, req, fault) ==
    LET pre == Preconditions(sl, evs, committed.bookings, req)
        session == SessionWrites(committed, req)
    IN IF pre # Ok
       THEN [db |-> Rollback(committed, committed), response |-> pre]
       ELSE IF fault = "before_commit"
       THEN [db |-> Rollback(committed, session), response |-> ErrInternal]
       ELSE IF fault = "after_commit"
       THEN [db |-> Rollback(Commit(committed, session), Commit(committed, session)),
             response |-> ErrInternal]
       ELSE [db |-> Commit(committed, session), response |-> Ok]

create_booking(req, fault) ==
    /\ BookingCreateValid(req)
    /\ Len(bookings) < MaxBookings
    /\ fault # "none" => Preconditions(slots, events, bookings, req) = Ok
    /\ LET txn == create_booking_txn(slots, events, Committed, req, fault)
       IN /\ consumers' = txn.db.consumers
          /\ referrals' = txn.db.referrals
          /\ profiles' = txn.db.profiles
          /\ bookings' = txn.db.bookings
          /\ last' = [op |-> "create_booking", response |-> txn.response]
    /\ UNCHANGED <<slots, events, exceptions, inflight, working_hours, preferences>>

BookingStatuses == {"confirmed", "completed", "cancelled"}

update_booking_status(booking_id, status) ==
    /\ IF status \notin BookingStatuses
       THEN /\ last' = [op |-> "update_booking_status", response |-> ErrInvalidStatus]
            /\ UNCHANGED bookings
       ELSE IF booking_id \notin DOMAIN bookings
       THEN /\ last' = [op |-> "update_booking_status", response |-> ErrBookingNotFound]
            /\ UNCHANGED bookings
       ELSE /\ bookings' = [bookings EXCEPT ![booking_id].status = status]
            /\ last' = [op |-> "update_booking_status", response |-> Ok]
    /\ UNCHANGED <<slots, events, exceptions, consumers, referrals, profiles,
                   inflight, working_hours, preferences>>

----------------------------------------------------------------------------
(* Availability and calendar management *)

SlotInputs(starts, ends) == [date : Dates, start_time : starts, end_time : ends]

add_availability_slots(specialist_id, new_slots) ==
    /\ specialist_id \in Specialists
    /\ slots' = slots \o [i \in DOMAIN new_slots |->
                             [specialist_id |-> specialist_id,
                              date |-> new_slots[i].date,
                              start_time |-> new_slots[i].start_time,
                              end_time |-> new_slots[i].end_time,
                              is_available |-> TRUE]]
    /\ last' = [op |-> "add_availability_slots", response |-> Ok]
    /\ UNCHANGED <<events, exceptions, bookings, consumers, referrals, profiles,
                   inflight, working_hours, preferences>>

EventTypes == {"availability", "block"}
EventStatuses == {"confirmed", "tentative"}

RecurrenceRules(freqs, intervals, weekdays, untils, counts) ==
    [freq : freqs, interval : intervals, byweekday : weekdays, until : untils,
     count : counts]

RecurringEventInputs(starts, lens, types, statuses, buffers, recurrings, rules) ==
    [title : {"A"}, description : {Null}, category : {Null}, visibility : {"public"},
     start_datetime : starts, len : lens, event_type : types, status : statuses,
     buffer_before : buffers, buffer_after : buffers,
     is_recurring : recurrings, recurrence_rule : rules]

EventInputs(starts, lens, types, statuses, buffers) ==
    RecurringEventInputs(starts, lens, types, statuses, buffers, {FALSE}, {Null})

create_calendar_event(specialist_id, event, DATEUTIL_AVAILABLE) ==
    /\ specialist_id \in Specialists
    /\ LET recurring_event_id == IF event.is_recurring THEN Len(events) + 1 ELSE None
           db_event == [specialist_id |-> specialist_id,
                        title |-> Some(event.title),
                        description |-> event.description,
                        category |-> event.category,
                        visibility |-> event.visibility,
                        start_datetime |-> event.start_datetime,
                        end_datetime |-> event.start_datetime + event.len,
                        event_type |-> event.event_type,
                        status |-> event.status,
                        buffer_before |-> event.buffer_before,
                        buffer_after |-> event.buffer_after,
                        is_recurring |-> event.is_recurring,
                        recurring_event_id |-> recurring_event_id,
                        original_start |-> Null,
                        is_active |-> TRUE]
           committed == Append(events, db_event)
       IN events' = IF event.is_recurring /\ event.recurrence_rule # Null
                    THEN generate_recurring_event_instances(
                             committed, db_event, The(event.recurrence_rule),
                             DATEUTIL_AVAILABLE)
                    ELSE committed
    /\ last' = [op |-> "create_calendar_event", response |-> Ok, event |-> event,
                DATEUTIL_AVAILABLE |-> DATEUTIL_AVAILABLE]
    /\ UNCHANGED <<slots, exceptions, bookings, consumers, referrals, profiles,
                   inflight, working_hours, preferences>>

delete_calendar_event(specialist_id, event_id, delete_series) ==
    /\ specialist_id \in Specialists
    /\ IF event_id \notin DOMAIN events \/ events[event_id].specialist_id # specialist_id
       THEN /\ last' = [op |-> "delete_calendar_event", response |-> ErrEventNotFound]
            /\ UNCHANGED events
       ELSE /\ events' =
                  IF events[event_id].is_recurring /\ delete_series
                  THEN [i \in DOMAIN events |->
                          IF events[i].recurring_event_id = events[event_id].recurring_event_id
                          THEN [events[i] EXCEPT !.is_active = FALSE]
                          ELSE events[i]]
                  ELSE [events EXCEPT ![event_id].is_active = FALSE]
            /\ last' = [op |-> "delete_calendar_event", response |-> Ok]
    /\ UNCHANGED <<slots, exceptions, bookings, consumers, referrals, profiles,
                   inflight, working_hours, preferences>>

----------------------------------------------------------------------------
(* Event exceptions, event update and event listing *)

ExceptionTypes == {"cancelled", "modified", "moved"}

(* A CalendarEventUpdate is the record of the fields that were set         *)
(* (exclude_unset); a field that was not set reads as None                 *)
Unset(event_update, field) == field \notin DOMAIN event_update

create_event_exception(excs, event_id, event, modifications) ==
    Append(excs,
           [event_id |-> event_id,
            exception_date |-> DateOf(event.start_datetime),
            exception_type |-> "modified",
            new_start_datetime |->
                IF Unset(modifications, "start_datetime") THEN Null
                ELSE Some(modifications.start_datetime),
            new_end_datetime |->
                IF Unset(modifications, "end_datetime") THEN Null
                ELSE Some(modifications.end_datetime),
            new_title |->
                IF Unset(modifications, "title") THEN Null ELSE modifications.title,
            new_description |->
                IF Unset(modifications, "description") THEN Null
                ELSE modifications.description])

SetFields(row, event_update) ==
    [f \in DOMAIN row |-> IF Unset(event_update, f) THEN row[f] ELSE event_update[f]]

update_calendar_event(specialist_id, event_id, event_update, modify_series) ==
    /\ specialist_id \in Specialists
    /\ IF event_id \notin DOMAIN events \/ events[event_id].specialist_id # specialist_id
       THEN /\ last' = [op |-> "update_calendar_event", response |-> ErrEventNotFound]
            /\ UNCHANGED <<events, exceptions>>
       ELSE /\ IF events[event_id].is_recurring /\ ~modify_series
               THEN /\ exceptions' = create_event_exception(exceptions, event_id,
                                                            events[event_id], event_update)
                    /\ UNCHANGED events
               ELSE /\ events' = [events EXCEPT
                                     ![event_id] = SetFields(events[event_id], event_update)]
                    /\ UNCHANGED exceptions
            /\ last' = [op |-> "update_calendar_event", response |-> Ok,
                        event_id |-> event_id, event_update |-> event_update,
                        modify_series |-> modify_series]
    /\ UNCHANGED <<slots, bookings, consumers, referrals, profiles, inflight,
                   working_hours, preferences>>

(* String fields are overlaid when truthy (neither None nor ""), datetime  *)
(* fields when not None                                                    *)
TruthyText(o) == o # Null /\ o # Some("")

Overlay(event, exception) ==
    [event EXCEPT
        !.start_datetime = IF exception.new_start_datetime # Null
                           THEN The(exception.new_start_datetime) ELSE @,
        !.end_datetime = IF exception.new_end_datetime # Null
                         THEN The(exception.new_end_datetime) ELSE @,
        !.title = IF TruthyText(exception.new_title) THEN exception.new_title ELSE @,
        !.description = IF TruthyText(exception.new_description)
                        THEN exception.new_description ELSE @]

exception_for_date(excs, event) ==
    LET matching == {k \in DOMAIN excs :
                        /\ excs[k].event_id = event.id
                        /\ excs[k].exception_date = DateOf(event.start_datetime)}
    IN IF matching = {} THEN Null
       ELSE Some(excs[CHOOSE k \in matching : \A m \in matching : k <= m])

RECURSIVE apply_recurring_exceptions(_, _)
apply_recurring_exceptions(excs, evs) ==
    IF evs = <<>> THEN <<>>
    ELSE LET event == Head(evs)
             found == exception_for_date(excs, event)
         IN (IF found = Null THEN <<event>>
             ELSE IF The(found).exception_type = "cancelled" THEN <<>>
             ELSE IF The(found).exception_type \in {"modified", "moved"}
             THEN <<Overlay(event, The(found))>>
             ELSE <<event>>)
            \o apply_recurring_exceptions(excs, Tail(evs))

(* ORDER BY start_datetime; rows with equal start come in primary-key order *)
RECURSIVE InsertByStart(_, _)
InsertByStart(sorted, x) ==
    IF sorted = <<>> THEN <<x>>
    ELSE IF sorted[Len(sorted)].start_datetime <= x.start_datetime THEN Append(sorted, x)
    ELSE Append(InsertByStart(SubSeq(sorted, 1, Len(sorted) - 1), x), sorted[Len(sorted)])

RECURSIVE OrderByStart(_)
OrderByStart(rows) ==
    IF rows = <<>> THEN <<>>
    ELSE InsertByStart(OrderByStart(SubSeq(rows, 1, Len(rows) - 1)), rows[Len(rows)])

calendar_events_query(specialist_id, current_specialist, start_date, end_date, event_types, categories) ==
    LET WithId(i) == [f \in DOMAIN events[i] \cup {"id"} |->
                         IF f = "id" THEN i ELSE events[i][f]]
        Selected(i) ==
            /\ events[i].specialist_id = specialist_id
            /\ events[i].is_active
            /\ (current_specialist = None \/ current_specialist # specialist_id)
               => events[i].visibility = "public"
            /\ start_date # Null => events[i].end_datetime >= Combine(The(start_date), 0)
            /\ end_date # Null => events[i].start_datetime < Combine(The(end_date) + 1, 0)
            /\ event_types # Null => events[i].event_type \in The(event_types)
            /\ categories # Null
               => events[i].category # Null /\ The(events[i].category) \in The(categories)
        ids == [i \in DOMAIN events |-> i]
        kept == SelectSeq(ids, Selected)
    IN OrderByStart([k \in DOMAIN kept |-> WithId(kept[k])])

get_calendar_events(specialist_id, current_specialist, start_date, end_date, event_types, categories, include_recurring) ==
    /\ LET queried == calendar_events_query(specialist_id, current_specialist, start_date,
                                            end_date, event_types, categories)
       IN last' = [op |-> "get_calendar_events", response |-> Ok,
                   specialist_id |-> specialist_id,
                   include_recurring |-> include_recurring,
                   result |-> IF include_recurring
                              THEN apply_recurring_exceptions(exceptions, queried)
                              ELSE queried]
    /\ UNCHANGED <<slots, events, exceptions, bookings, consumers, referrals,
                   profiles, inflight, working_hours, preferences>>

----------------------------------------------------------------------------
(* Slot listing *)

(* service_duration ignoring the requested service *)
service_duration_minimum(specialist_id, service_id) ==
    LET own == {Services[k].duration :
                   k \in {i \in DOMAIN Services : Services[i].specialist_id = specialist_id}}
    IN IF own = {} THEN DefaultDuration
       ELSE CHOOSE m \in own : \A x \in own : m <= x

service_duration(specialist_id, service_id) ==
    IF service_id # None
    THEN Services[service_id].duration
    ELSE LET own == {Services[k].duration :
                        k \in {i \in DOMAIN Services : Services[i].specialist_id = specialist_id}}
         IN IF own = {} THEN DefaultDuration
            ELSE CHOOSE m \in own : \A x \in own : m <= x

BookingConflict(specialist_id, booking_date, current_time, slot_end) ==
    \E b \in DOMAIN bookings :
        /\ bookings[b].specialist_id = specialist_id
        /\ bookings[b].date = booking_date
        /\ bookings[b].status = "confirmed"
        /\ current_time < Combine(booking_date, bookings[b].end_time)
        /\ slot_end > Combine(booking_date, bookings[b].start_time)

RECURSIVE WalkSlot(_, _, _, _, _)
WalkSlot(specialist_id, booking_date, current_time, end_time, d) ==
    IF current_time + d <= end_time
    THEN LET slot_end == current_time + d
             conflict ==
                 \/ BookingConflict(specialist_id, booking_date, current_time, slot_end)
                 \/ has_calendar_conflict(events, specialist_id,
                                          Combine(booking_date, TimeOf(current_time)),
                                          Combine(booking_date, TimeOf(slot_end)), None)
         IN (IF conflict THEN <<>>
             ELSE <<[start_time |-> TimeOf(current_time),
                     end_time |-> TimeOf(slot_end),
                     duration_minutes |-> d]>>)
            \o WalkSlot(specialist_id, booking_date, current_time + d, end_time, d)
    ELSE <<>>

RECURSIVE WalkEvent(_, _, _, _, _, _)
WalkEvent(available_slots, cal_event, specialist_id, booking_date, current_time, d) ==
    IF current_time + d <= events[cal_event].end_datetime
    THEN LET slot_end == current_time + d
             conflict ==
                 \/ BookingConflict(specialist_id, booking_date, current_time, slot_end)
                 \/ has_calendar_conflict(events, specialist_id, current_time, slot_end,
                                          cal_event)
             slot_time == TimeOf(current_time)
             slot_exists ==
                 \E k \in DOMAIN available_slots : available_slots[k].start_time = slot_time
         IN WalkEvent(IF ~conflict /\ ~slot_exists
                      THEN Append(available_slots,
                                  [start_time |-> slot_time,
                                   end_time |-> TimeOf(slot_end),
                                   duration_minutes |-> d])
                      ELSE available_slots,
                      cal_event, specialist_id, booking_date, current_time + d, d)
    ELSE available_slots

RECURSIVE FromSlots(_, _, _, _)
FromSlots(i, specialist_id, booking_date, d) ==
    IF i > Len(slots) THEN <<>>
    ELSE (IF /\ slots[i].specialist_id = specialist_id
             /\ slots[i].date = booking_date
             /\ slots[i].is_available
          THEN WalkSlot(specialist_id, booking_date,
                        Combine(booking_date, slots[i].start_time),
                        Combine(booking_date, slots[i].end_time), d)
          ELSE <<>>)
         \o FromSlots(i + 1, specialist_id, booking_date, d)

calendar_availability(j, specialist_id, booking_date) ==
    /\ events[j].specialist_id = specialist_id
    /\ events[j].event_type = "availability"
    /\ events[j].status = "confirmed"
    /\ DateOf(events[j].start_datetime) = booking_date

RECURSIVE FromEvents(_, _, _, _, _)
FromEvents(available_slots, j, specialist_id, booking_date, d) ==
    IF j > Len(events) THEN available_slots
    ELSE FromEvents(IF calendar_availability(j, specialist_id, booking_date)
                    THEN WalkEvent(available_slots, j, specialist_id, booking_date,
                                   events[j].start_datetime, d)
                    ELSE available_slots,
                    j + 1, specialist_id, booking_date, d)

RECURSIVE InsertSorted(_, _)
InsertSorted(sorted, x) ==
    IF sorted = <<>> THEN <<x>>
    ELSE IF sorted[Len(sorted)].start_time <= x.start_time THEN Append(sorted, x)
    ELSE Append(InsertSorted(SubSeq(sorted, 1, Len(sorted) - 1), x), sorted[Len(sorted)])

RECURSIVE SortByStart(_)
SortByStart(seq) ==
    IF seq = <<>> THEN <<>>
    ELSE InsertSorted(SortByStart(SubSeq(seq, 1, Len(seq) - 1)), seq[Len(seq)])

available_time_slots(specialist_id, booking_date, service_id) ==
    LET d == service_duration(specialist_id, service_id)
    IN SortByStart(FromEvents(FromSlots(1, specialist_id, booking_date, d),
                              1, specialist_id, booking_date, d))

get_available_time_slots(specialist_id, booking_date, service_id) ==
    /\ last' = IF service_id # None /\ service_id \notin DOMAIN Services
               THEN [op |-> "get_available_time_slots", response |-> ErrServiceMissing]
               ELSE [op |-> "get_available_time_slots", response |-> Ok,
                     specialist_id |-> specialist_id,
                     booking_date |-> booking_date,
                     service_id |-> service_id,
                     result |-> available_time_slots(specialist_id, booking_date,
                                                     service_id)]
    /\ UNCHANGED <<slots, events, exceptions, bookings, consumers, referrals,
                   profiles, inflight, working_hours, preferences>>

----------------------------------------------------------------------------
(* Specification: every request is handled without interleaving *)

Next ==
    \/ \E req \in AllRequests, fault \in Faults : create_booking(req, fault)
    \/ \E id \in 1 .. MaxBookings, st \in BookingStatuses \cup {"pending"} :
          update_booking_status(id, st)
    \/ \E sl \in SlotInputs({2}, {3}) :
          Len(slots) < MaxSlots /\ add_availability_slots(2, <<sl>>)
    \/ \E ev \in EventInputs({2}, {1, 2}, EventTypes, EventStatuses, {0}) :
          Len(events) < MaxEvents /\ create_calendar_event(1, ev, TRUE)
    \/ \E id \in 1 .. MaxEvents, ds \in BOOLEAN : delete_calendar_event(1, id, ds)

Spec == Init /\ [][Next]_vars

----------------------------------------------------------------------------
(* Specification of the calendar side: events of every kind with buffers,  *)
(* slot listing, bookings by one client                                    *)

OneContact == {[client_email |-> <<"J">>, client_phone |-> <<"1">>]}

NextCal ==
    \/ \E req \in BookingRequests(Specialists, DOMAIN Services, OneContact) :
          create_booking(req, "none")
    \/ \E sp \in Specialists, sl \in SlotInputs({0, 1}, {3}) :
          Len(slots) < MaxSlots /\ add_availability_slots(sp, <<sl>>)
    \/ \E ev \in EventInputs({1, 2}, {1, 3}, EventTypes, {"confirmed"}, 0 .. MaxBuffer) :
          Len(events) < MaxEvents /\ create_calendar_event(1, ev, TRUE)
    \/ \E id \in 1 .. MaxEvents, ds \in BOOLEAN : delete_calendar_event(1, id, ds)
    \/ \E sp \in Specialists, d \in Dates, svc \in {None} \cup DOMAIN Services \cup {4} :
          get_available_time_slots(sp, d, svc)

SpecCal == Init /\ [][NextCal]_vars

----------------------------------------------------------------------------
(* Specification of concurrent requests: POST /booking/ runs on a worker   *)
(* thread; its reads (lines 2043-2135) and its writes with the commit      *)
(* (lines 2142-2198) are separate statements on the database, and another  *)
(* worker's statements may run between them.                               *)

begin_create_booking(w, req) ==
    /\ inflight[w] = Idle
    /\ BookingCreateValid(req)
    /\ Len(bookings) < MaxBookings
    /\ LET pre == Preconditions(slots, events, bookings, req)
       IN IF pre = Ok
          THEN /\ inflight' = [inflight EXCEPT ![w] = [pc |-> "checked", req |-> req]]
               /\ last' = [op |-> "begin_create_booking", response |-> Ok]
          ELSE /\ inflight' = inflight
               /\ last' = [op |-> "create_booking", response |-> pre]
    /\ UNCHANGED tables

finish_create_booking(w, fault) ==
    /\ inflight[w] # Idle
    /\ Len(bookings) < MaxBookings
    /\ LET session == SessionWrites(Committed, inflight[w].req)
           final == IF fault = "before_commit"
                    THEN Rollback(Committed, session)
                    ELSE Commit(Committed, session)
       IN /\ consumers' = final.consumers
          /\ referrals' = final.referrals
          /\ profiles' = final.profiles
          /\ bookings' = final.bookings
          /\ last' = [op |-> "create_booking",
                      response |-> IF fault = "none" THEN Ok ELSE ErrInternal]
    /\ inflight' = [inflight EXCEPT ![w] = Idle]
    /\ UNCHANGED <<slots, events, exceptions, working_hours, preferences>>

NextConc ==
    \/ \E w \in Workers, req \in BookingRequests({1}, {1, 2}, Contacts) :
          begin_create_booking(w, req)
    \/ \E w \in Workers, fault \in Faults : finish_create_booking(w, fault)
    \/ \E sl \in SlotInputs({1}, {3}) :
          Len(slots) < MaxSlots /\ add_availability_slots(1, <<sl>>)

SpecConc == Init /\ [][NextConc]_vars

----------------------------------------------------------------------------
(* Specification of the slot listing over several availability rows of one *)
(* specialist: slot rows added one or two at a time, availability and      *)
(* block events, bookings of the shortest service                          *)

MaxListedRows == 2

NextList ==
    \/ \E sl1 \in SlotInputs({0, 1}, {2, 3}), sl2 \in SlotInputs({1}, {3}), n \in 1 .. 2 :
          /\ Len(slots) + n <= MaxListedRows
          /\ add_availability_slots(1, SubSeq(<<sl1, sl2>>, 1, n))
    \/ \E ev \in EventInputs({1, 2}, {1, 3}, EventTypes, {"confirmed"}, {0}) :
          Len(events) < MaxEvents /\ create_calendar_event(1, ev, TRUE)
    \/ \E req \in BookingRequests({1}, {1}, OneContact) : create_booking(req, "none")
    \/ \E d \in Dates, svc \in {None, 1, 2} : get_available_time_slots(1, d, svc)

SpecList == Init /\ [][NextList]_vars

----------------------------------------------------------------------------
(* Specification of recurrence expansion: one specialist creates block     *)
(* events and recurring availability with DAILY, WEEKLY and unsupported    *)
(* rules, with either generator, and deletes events                       *)

MaxBlocks == 1
MaxSeries == 1
MaxCount == 5
LastUntil == 9

Blocks ==
    Cardinality({i \in DOMAIN events :
                    ~events[i].is_recurring /\ events[i].original_start = Null})

Series == Cardinality({i \in DOMAIN events : events[i].is_recurring})

TestedRules ==
    {r \in RecurrenceRules({"DAILY", "WEEKLY"}, {1, 2},
                           {{}, {0, 2, 4}, {2, 4}}, {Null, Some(LastUntil)},
                           {Null, Some(MaxCount)}) :
        r.until # Null \/ r.count # Null}
    \cup RecurrenceRules({"MONTHLY"}, {1}, {{}}, {Null}, {Some(MaxCount)})

NextRec ==
    \/ \E ev \in EventInputs({9, 10}, {1}, {"block"}, {"confirmed"}, 0 .. MaxBuffer) :
          Blocks < MaxBlocks /\ create_calendar_event(1, ev, TRUE)
    \/ \E ev \in RecurringEventInputs({1}, {1, 5}, {"availability"}, {"confirmed"}, {0},
                                       {TRUE}, {Some(r) : r \in TestedRules}),
          DATEUTIL_AVAILABLE \in BOOLEAN :
          Series < MaxSeries /\ create_calendar_event(1, ev, DATEUTIL_AVAILABLE)
    \/ \E id \in 1 .. MaxBlocks + MaxSeries, ds \in BOOLEAN :
          delete_calendar_event(1, id, ds)

SpecRec == Init /\ [][NextRec]_vars

----------------------------------------------------------------------------
(* Specification of the event listing with exceptions.  The exception      *)
(* table starts with rows of any of the three exception types for the      *)
(* first event and its date; update_calendar_event adds 'modified' rows.   *)

MaxExceptions == 2

StoredExceptionRows ==
    [event_id : {1}, exception_date : Dates, exception_type : ExceptionTypes,
     new_start_datetime : {Null}, new_end_datetime : {Null},
     new_title : {Null, Some("B")}, new_description : {Null}]

StoredExceptions == UNION {[1 .. n -> StoredExceptionRows] : n \in 0 .. MaxExceptions}

InitExc ==
    /\ slots = <<>>
    /\ events = <<>>
    /\ exceptions \in StoredExceptions
    /\ bookings = <<>>
    /\ consumers = <<>>
    /\ referrals = <<>>
    /\ profiles = <<>>
    /\ working_hours = <<>>
    /\ preferences = <<>>
    /\ inflight = [w \in Workers |-> Idle]
    /\ last = [op |-> "init", response |-> Ok]

EventUpdates ==
    {[title |-> Some("B")],
     [title |-> Some(""), description |-> Some("d")],
     [start_datetime |-> 2, end_datetime |-> 3]}

NextExc ==
    \/ \E ev \in RecurringEventInputs({1}, {1}, {"availability"}, {"confirmed"}, {0},
                                       BOOLEAN, {Null}) :
          Len(events) < MaxEvents /\ create_calendar_event(1, ev, TRUE)
    \/ \E id \in 1 .. MaxEvents, event_update \in EventUpdates, modify_series \in BOOLEAN :
          /\ modify_series \/ Len(exceptions) < MaxExceptions
          /\ update_calendar_event(1, id, event_update, modify_series)
    \/ \E caller \in {None, 1}, start_date \in {Null, Some(1)},
          event_types \in {Null, Some({"block"})}, include_recurring \in BOOLEAN :
          get_calendar_events(1, caller, start_date, Null, event_types, Null,
                              include_recurring)

SpecExc == InitExc /\ [][NextExc]_vars

----------------------------------------------------------------------------
(* Specification of the management of a recurring series: a short DAILY    *)
(* series and a single event are created, updated (one row or the series)  *)
(* and deleted                                                             *)

MaxAddressed == 3

SeriesUpdates == {[title |-> Some("B")], [start_datetime |-> 2, end_datetime |-> 3]}

NextSeries ==
    \/ \E ev \in EventInputs({9}, {1}, {"block"}, {"confirmed"}, {0}) :
          Blocks < MaxBlocks /\ create_calendar_event(1, ev, TRUE)
    \/ \E ev \in RecurringEventInputs(
                     {1}, {1}, {"availability"}, {"confirmed"}, {0}, {TRUE},
                     {Some(r) : r \in RecurrenceRules({"DAILY"}, {1}, {{}}, {Null},
                                                      {Some(2), Some(3)})}),
          DATEUTIL_AVAILABLE \in BOOLEAN :
          Series < MaxSeries /\ create_calendar_event(1, ev, DATEUTIL_AVAILABLE)
    \/ \E id \in 1 .. MaxAddressed, event_update \in SeriesUpdates,
          modify_series \in BOOLEAN :
          /\ modify_series \/ Len(exceptions) < MaxExceptions
          /\ update_calendar_event(1, id, event_update, modify_series)
    \/ \E id \in 1 .. MaxAddressed, ds \in BOOLEAN : delete_calendar_event(1, id, ds)

SpecSeries == Init /\ [][NextSeries]_vars

(* Event spans: the request models carry no validator relating             *)
(* end_datetime to start_datetime, so len ranges over zero and negative    *)
(* values as well                                                          *)
SpanUpdates == {[start_datetime |-> 3], [end_datetime |-> 1],
                [start_datetime |-> 2, end_datetime |-> 4]}

NextSpan ==
    \/ \E ev \in RecurringEventInputs({1, 2}, {-1, 0, 1, 2}, {"availability"},
                                       {"confirmed"}, {0}, BOOLEAN, {Null}) :
          Len(events) < MaxEvents /\ create_calendar_event(1, ev, TRUE)
    \/ \E id \in 1 .. MaxEvents, event_update \in SpanUpdates, modify_series \in BOOLEAN :
          /\ modify_series \/ Len(exceptions) < MaxExceptions
          /\ update_calendar_event(1, id, event_update, modify_series)
    \/ \E include_recurring \in BOOLEAN :
          get_calendar_events(1, 1, Null, Null, Null, Null, include_recurring)

SpecSpan == Init /\ [][NextSpan]_vars

----------------------------------------------------------------------------
(* Working hours, scheduling preferences and smart suggestions *)

HoursPerDay == 24

(* datetime.hour of an instant, and a span of whole hours in ticks *)
HourOf(dt) == (TimeOf(dt) * HoursPerDay) \div DayLen

Hours(h) == (h * DayLen) \div HoursPerDay

(* `preferences.slot_increment if preferences else 30`, and the same half  *)
(* hour as DefaultDuration                                                 *)
DefaultIncrement == 1

NearbyHours == 2

TopSuggestions == 10

TimeRanges(starts, ends) == [start_time : starts, end_time : ends]

WorkingHoursInputs(days, ranges, flags) ==
    [day_of_week : days, time_ranges : ranges, is_working_day : flags]

set_working_hours(specialist_id, hours) ==
    /\ specialist_id \in Specialists
    /\ working_hours' = Append(working_hours,
                               [specialist_id |-> specialist_id,
                                day_of_week |-> hours.day_of_week,
                                time_ranges |-> hours.time_ranges,
                                is_working_day |-> hours.is_working_day,
                                is_active |-> TRUE])
    /\ last' = [op |-> "set_working_hours", response |-> Ok]
    /\ UNCHANGED <<slots, events, exceptions, bookings, consumers, referrals, profiles,
                   preferences, inflight>>

PreferencesInputs(increments, notices) ==
    [slot_increment : increments, min_booking_notice : notices]

(* .first() of the active preferences rows of the specialist, or None *)
active_preferences(prefs, specialist_id) ==
    LET own == {k \in DOMAIN prefs : /\ prefs[k].specialist_id = specialist_id
                                     /\ prefs[k].is_active}
    IN IF own = {} THEN Null
       ELSE Some(CHOOSE k \in own : \A m \in own : k <= m)

set_scheduling_preferences(specialist_id, prefs) ==
    /\ specialist_id \in Specialists
    /\ LET existing == active_preferences(preferences, specialist_id)
       IN preferences' =
             IF existing # Null
             THEN [preferences EXCEPT
                      ![The(existing)] =
                          [f \in DOMAIN @ |-> IF f \in DOMAIN prefs THEN prefs[f] ELSE @[f]]]
             ELSE Append(preferences,
                         [specialist_id |-> specialist_id,
                          slot_increment |-> prefs.slot_increment,
                          min_booking_notice |-> prefs.min_booking_notice,
                          is_active |-> TRUE])
    /\ last' = [op |-> "set_scheduling_preferences", response |-> Ok]
    /\ UNCHANGED <<slots, events, exceptions, bookings, consumers, referrals, profiles,
                   working_hours, inflight>>

(* is_within_working_hours without the is_working_day test *)
is_within_working_hours_any_row(check_datetime, hours) ==
    LET weekday == Weekday(DateOf(check_datetime))
        check_time == TimeOf(check_datetime)
    IN \E w \in DOMAIN hours :
          /\ hours[w].day_of_week = weekday
          /\ \E r \in DOMAIN hours[w].time_ranges :
                LET tr == hours[w].time_ranges[r]
                IN /\ tr.start_time # Null
                   /\ tr.end_time # Null
                   /\ The(tr.start_time) <= check_time
                   /\ check_time <= The(tr.end_time)

is_within_working_hours(check_datetime, hours) ==
    LET weekday == Weekday(DateOf(check_datetime))
        check_time == TimeOf(check_datetime)
    IN \E w \in DOMAIN hours :
          /\ hours[w].day_of_week = weekday
          /\ hours[w].is_working_day
          /\ \E r \in DOMAIN hours[w].time_ranges :
                LET tr == hours[w].time_ranges[r]
                IN /\ tr.start_time # Null
                   /\ tr.end_time # Null
                   /\ The(tr.start_time) <= check_time
                   /\ check_time <= The(tr.end_time)

(* The score in ten-thousandths: each factor is a number of tenths *)
calculate_confidence_score(evs, specialist_id, suggested_datetime, prefs, now) ==
    LET hour == HourOf(suggested_datetime)
        time_of_day ==
            IF (9 <= hour /\ hour <= 11) \/ (14 <= hour /\ hour <= 16) THEN 10
            ELSE IF \/ (8 <= hour /\ hour <= 9)
                    \/ (11 <= hour /\ hour <= 14)
                    \/ (16 <= hour /\ hour <= 17) THEN 8
            ELSE 6
        weekday == Weekday(DateOf(suggested_datetime))
        day_of_week == IF 0 <= weekday /\ weekday <= 4 THEN 10 ELSE 7
        notice ==
            IF prefs = Null THEN 10
            ELSE LET notice_hours == suggested_datetime - now
                     min_notice_hours == The(prefs).min_booking_notice
                 IN IF notice_hours >= min_notice_hours * 2 THEN 10
                    ELSE IF notice_hours >= min_notice_hours THEN 8
                    ELSE 3
        nearby_events ==
            {i \in DOMAIN evs :
                /\ evs[i].specialist_id = specialist_id
                /\ evs[i].is_active
                /\ evs[i].start_datetime >= suggested_datetime - Hours(NearbyHours)
                /\ evs[i].end_datetime <= suggested_datetime + Hours(NearbyHours)}
        nearby == IF Cardinality(nearby_events) = 0 THEN 10
                  ELSE IF Cardinality(nearby_events) <= 2 THEN 9
                  ELSE 7
        score == time_of_day * day_of_week * notice * nearby
    IN IF score < 10000 THEN score ELSE 10000

(* suggestions.sort(key=confidence_score, reverse=True): a stable sort,    *)
(* equal scores keep the order of the walk                                 *)
(* InsertByScore keeping the order of the walk *)
InsertByScore_unsorted(sorted, x) == Append(sorted, x)

RECURSIVE InsertByScore(_, _)
InsertByScore(sorted, x) ==
    IF sorted = <<>> THEN <<x>>
    ELSE IF sorted[Len(sorted)].confidence_score >= x.confidence_score
    THEN Append(sorted, x)
    ELSE Append(InsertByScore(SubSeq(sorted, 1, Len(sorted) - 1), x), sorted[Len(sorted)])

RECURSIVE SortByScore(_)
SortByScore(seq) ==
    IF seq = <<>> THEN <<>>
    ELSE InsertByScore(SortByScore(SubSeq(seq, 1, Len(seq) - 1)), seq[Len(seq)])

slot_increment(prefs) ==
    IF prefs # Null THEN The(prefs).slot_increment ELSE DefaultIncrement

(* One pass of the while loop body at current_datetime: the suggestion     *)
(* appended, if any                                                        *)
suggestion_at(evs, hours, prefs, specialist_id, query, now, current_datetime) ==
    IF /\ is_within_working_hours(current_datetime, hours)
       /\ ~has_calendar_conflict(evs, specialist_id, current_datetime,
                                 current_datetime + query.duration_minutes, None)
    THEN <<[suggested_datetime |-> current_datetime,
            duration_minutes |-> query.duration_minutes,
            confidence_score |->
                calculate_confidence_score(evs, specialist_id, current_datetime,
                                           prefs, now)]>>
    ELSE <<>>

RECURSIVE walk(_, _, _, _, _, _, _)
walk(evs, hours, prefs, specialist_id, query, now, current_datetime) ==
    IF current_datetime + query.duration_minutes <= query.end_datetime
    THEN suggestion_at(evs, hours, prefs, specialist_id, query, now, current_datetime)
         \o walk(evs, hours, prefs, specialist_id, query, now,
                 current_datetime + slot_increment(prefs))
    ELSE <<>>

top(suggestions) ==
    SubSeq(suggestions, 1,
           IF Len(suggestions) < TopSuggestions THEN Len(suggestions) ELSE TopSuggestions)

generate_smart_availability_suggestions(specialist_id, query, now) ==
    LET prefs == IF active_preferences(preferences, specialist_id) = Null THEN Null
                 ELSE Some(preferences[The(active_preferences(preferences, specialist_id))])
        hours == SelectSeq(working_hours,
                           LAMBDA w : w.specialist_id = specialist_id /\ w.is_active)
    IN top(SortByScore(walk(events, hours, prefs, specialist_id, query, now,
                            query.start_datetime)))

AvailabilityQueries(starts, ends, durations) ==
    [start_datetime : starts, end_datetime : ends, duration_minutes : durations]

(* The call returns when the walk ends: the loop is entered only while     *)
(* current_datetime + duration <= end_datetime, and leaves that range only *)
(* by a positive increment                                                 *)
Returns(specialist_id, query) ==
    LET k == active_preferences(preferences, specialist_id)
    IN IF query.start_datetime + query.duration_minutes > query.end_datetime THEN TRUE
       ELSE IF k = Null THEN TRUE
       ELSE preferences[The(k)].slot_increment > 0

find_smart_availability(specialist_id, query, now) ==
    /\ Returns(specialist_id, query)
    /\ last' = [op |-> "find_smart_availability", response |-> Ok,
                specialist_id |-> specialist_id, query |-> query, now |-> now,
                result |-> generate_smart_availability_suggestions(specialist_id,
                                                                   query, now)]
    /\ UNCHANGED <<tables, inflight>>

(* The same handler statement by statement, on a worker thread: the two    *)
(* queries before the loop, one pass of the while loop, and the sort and   *)
(* return after it.  The preferences and working-hours rows are the        *)
(* objects loaded before the loop.                                         *)
begin_find_smart_availability(w, specialist_id, query, now) ==
    /\ inflight[w] = Idle
    /\ inflight' =
          [inflight EXCEPT
              ![w] = [pc |-> "walking",
                      specialist_id |-> specialist_id,
                      query |-> query,
                      now |-> now,
                      preferences |->
                          LET k == active_preferences(preferences, specialist_id)
                          IN IF k = Null THEN Null ELSE Some(preferences[The(k)]),
                      working_hours |->
                          SelectSeq(working_hours,
                                    LAMBDA h : h.specialist_id = specialist_id
                                               /\ h.is_active),
                      current_datetime |-> query.start_datetime]]
    /\ UNCHANGED <<tables, last>>

InLoop(call) ==
    call.current_datetime + call.query.duration_minutes <= call.query.end_datetime

step_find_smart_availability(w) ==
    /\ inflight[w].pc = "walking"
    /\ InLoop(inflight[w])
    /\ inflight' = [inflight EXCEPT
                       ![w].current_datetime = @ + slot_increment(inflight[w].preferences)]
    /\ UNCHANGED <<tables, last>>

end_find_smart_availability(w) ==
    /\ inflight[w].pc = "walking"
    /\ ~InLoop(inflight[w])
    /\ last' = [op |-> "find_smart_availability", response |-> Ok,
                specialist_id |-> inflight[w].specialist_id,
                query |-> inflight[w].query, now |-> inflight[w].now,
                result |-> top(SortByScore(walk(events, inflight[w].working_hours,
                                                inflight[w].preferences,
                                                inflight[w].specialist_id,
                                                inflight[w].query, inflight[w].now,
                                                inflight[w].query.start_datetime)))]
    /\ inflight' = [inflight EXCEPT ![w] = Idle]
    /\ UNCHANGED tables

MaxHoursRows == 3

AllDay == <<[start_time |-> Some(0), end_time |-> Some(DayLen - 1)]>>

Midday == <<[start_time |-> Some(1), end_time |-> Some(2)]>>

NextSmart ==
    \/ \E hours \in WorkingHoursInputs({0, 1, 2}, {AllDay}, BOOLEAN)
                    \cup WorkingHoursInputs({0, 1, 2}, {Midday}, {TRUE}) :
          Len(working_hours) < MaxHoursRows /\ set_working_hours(1, hours)
    \/ \E prefs \in PreferencesInputs({1, 2}, {2}) : set_scheduling_preferences(1, prefs)
    \/ \E ev \in EventInputs({5}, {0, 1}, {"block"}, {"confirmed"}, {0}) :
          Len(events) < MaxEvents /\ create_calendar_event(1, ev, TRUE)
    \/ \E query \in AvailabilityQueries({0}, {2 * DayLen, 3 * DayLen}, {1, 2}) :
          find_smart_availability(1, query, 0)

SpecSmart == Init /\ [][NextSmart]_vars

(* Specification of the walk: a thread that runs keeps running, so the     *)
(* next pass of the loop is eventually executed                            *)
NextWalk ==
    \/ \E hours \in WorkingHoursInputs({0}, {AllDay, Midday}, {TRUE}) :
          Len(working_hours) < MaxHoursRows /\ set_working_hours(1, hours)
    \/ \E prefs \in PreferencesInputs({0, 1, 2}, {2}) : set_scheduling_preferences(1, prefs)
    \/ \E query \in AvailabilityQueries({0, 2}, {1, DayLen}, {1, 2}) :
          begin_find_smart_availability(1, 1, query, 0)
    \/ step_find_smart_availability(1)
    \/ end_find_smart_availability(1)

SpecWalk ==
    /\ Init
    /\ [][NextWalk]_vars
    /\ WF_vars(step_find_smart_availability(1))

----------------------------------------------------------------------------
(* Properties *)

Overlaps(a_start, a_end, b_start, b_end) == a_start < b_end /\ a_end > b_start

ConfirmedClash(b1, b2) ==
    /\ b1.specialist_id = b2.specialist_id
    /\ b1.date = b2.date
    /\ b1.status = "confirmed"
    /\ b2.status = "confirmed"
    /\ Overlaps(b1.start_time, b1.end_time, b2.start_time, b2.end_time)

NewBookings == {k \in DOMAIN bookings' : k \notin DOMAIN bookings}

(* C1: after any sequence of create_booking and update_booking_status, no  *)
(* two confirmed bookings of one specialist on one date overlap.           *)
NoDoubleBooking ==
    \A i, j \in DOMAIN bookings : i < j => ~ConfirmedClash(bookings[i], bookings[j])

(* C2: of two interleaved create_booking requests with overlapping windows *)
(* at most one commits: a booking is never committed while a confirmed     *)
(* booking of that specialist and date overlaps it.                        *)
ConcurrentAtMostOneCommits ==
    [][\A k \in NewBookings :
          ~\E b \in DOMAIN bookings : ConfirmedClash(bookings[b], bookings'[k])]_vars

(* C3: has_calendar_conflict is true whenever an active event of the       *)
(* specialist, other than the excluded one, overlaps [s, e) only through   *)
(* its buffer padding.                                                     *)
BufferOnlyOverlap(ev, s, e) ==
    /\ Overlaps(ev.start_datetime - ev.buffer_before, ev.end_datetime + ev.buffer_after, s, e)
    /\ ~Overlaps(ev.start_datetime, ev.end_datetime, s, e)

BufferPaddingDetected ==
    \A sp \in Specialists, s \in 0 .. 2 * DayLen, e \in 0 .. 2 * DayLen,
       ex \in {None} \cup DOMAIN events :
        (/\ s < e
         /\ \E i \in DOMAIN events :
               /\ i # ex
               /\ events[i].specialist_id = sp
               /\ events[i].is_active
               /\ BufferOnlyOverlap(events[i], s, e))
        => has_calendar_conflict(events, sp, s, e, ex)

(* C4: every listed slot lies inside an availability window of that date   *)
(* and overlaps neither a confirmed booking nor the buffer-padded interval *)
(* of another active calendar event.  A listed slot carries times of day   *)
(* only; it is read as an interval of the listed date or, for a window     *)
(* that runs past midnight, of the day after.                              *)
Listed == last.op = "get_available_time_slots" /\ last.response = Ok

SlotIntervals(k) ==
    {<<Combine(day, last.result[k].start_time),
       Combine(day, last.result[k].start_time) + last.result[k].duration_minutes>> :
        day \in {last.booking_date, last.booking_date + 1}}

SlotInsideSlotRow(iv, i) ==
    /\ slots[i].specialist_id = last.specialist_id
    /\ slots[i].date = last.booking_date
    /\ slots[i].is_available
    /\ iv[1] >= Combine(slots[i].date, slots[i].start_time)
    /\ iv[2] <= Combine(slots[i].date, slots[i].end_time)

SlotInsideEvent(iv, j) ==
    /\ events[j].specialist_id = last.specialist_id
    /\ events[j].event_type = "availability"
    /\ DateOf(events[j].start_datetime) = last.booking_date
    /\ iv[1] >= events[j].start_datetime
    /\ iv[2] <= events[j].end_datetime

SlotHitsBooking(iv) ==
    \E b \in DOMAIN bookings :
        /\ bookings[b].specialist_id = last.specialist_id
        /\ bookings[b].date = last.booking_date
        /\ bookings[b].status = "confirmed"
        /\ Overlaps(Combine(bookings[b].date, bookings[b].start_time),
                    Combine(bookings[b].date, bookings[b].end_time), iv[1], iv[2])

SlotHitsPaddedEvent(iv, source) ==
    \E j \in DOMAIN events :
        /\ j # source
        /\ events[j].specialist_id = last.specialist_id
        /\ events[j].is_active
        /\ Overlaps(events[j].start_datetime - events[j].buffer_before,
                    events[j].end_datetime + events[j].buffer_after, iv[1], iv[2])

SlotContainment ==
    Listed =>
        \A k \in DOMAIN last.result :
            \E iv \in SlotIntervals(k) :
                /\ ~SlotHitsBooking(iv)
                /\ \/ \E i \in DOMAIN slots :
                         SlotInsideSlotRow(iv, i) /\ ~SlotHitsPaddedEvent(iv, None)
                   \/ \E j \in DOMAIN events :
                         SlotInsideEvent(iv, j) /\ ~SlotHitsPaddedEvent(iv, j)

(* C5: every slot listed for a specialist, a date and one of the           *)
(* specialist's services is bookable at once: a create_booking request for *)
(* that slot, whenever its start time makes a valid request, passes the    *)
(* preconditions and creates the booking.                                  *)
SlotRequest(k) ==
    [specialist_id |-> last.specialist_id, service_id |-> last.service_id,
     booking_date |-> last.booking_date, start_time |-> last.result[k].start_time,
     client_email |-> <<"J">>, client_phone |-> <<"1">>]

ListedSlotsBookable ==
    (/\ Listed
     /\ last.service_id # None
     /\ last.specialist_id \in Specialists
     /\ Services[last.service_id].specialist_id = last.specialist_id)
    => \A k \in DOMAIN last.result :
          BookingCreateValid(SlotRequest(k)) =>
              create_booking_txn(slots, events, Committed, SlotRequest(k),
                                 "none").response = Ok

(* C6: create_booking creates no booking whose window overlaps the         *)
(* buffer-padded interval of an active non-availability event of the       *)
(* specialist.                                                             *)
Created == last.op = "create_booking" /\ last.response = Ok

BookedOverBlock(b) ==
    LET s == Combine(b.date, b.start_time)
        e == s + Services[b.service_id].duration
    IN \E j \in DOMAIN events :
          /\ events[j].specialist_id = b.specialist_id
          /\ events[j].is_active
          /\ events[j].event_type # "availability"
          /\ Overlaps(events[j].start_datetime - events[j].buffer_before,
                      events[j].end_datetime + events[j].buffer_after, s, e)

BlockedTimeRejected == Created => ~BookedOverBlock(bookings[Len(bookings)])

(* C8: a create_booking that fails leaves every table as it was.           *)
FailedBookingLeavesNoTrace ==
    [][(last'.op = "create_booking" /\ last'.response # Ok) => UNCHANGED tables]_vars

(* C7: create_booking succeeds only if the window is fully contained in an *)
(* availability window of that date (an available slot row, or an active,  *)
(* confirmed availability event of the specialist); otherwise it fails     *)
(* with 'No availability slot covers the requested time' and inserts       *)
(* nothing.                                                                *)
AvailabilityWindows(sp, d) ==
    {<<Combine(slots[i].date, slots[i].start_time),
       Combine(slots[i].date, slots[i].end_time)>> :
        i \in {n \in DOMAIN slots : /\ slots[n].specialist_id = sp
                                    /\ slots[n].date = d
                                    /\ slots[n].is_available}}
    \cup
    {<<events[j].start_datetime, events[j].end_datetime>> :
        j \in {n \in DOMAIN events : /\ events[n].specialist_id = sp
                                     /\ events[n].event_type = "availability"
                                     /\ events[n].status = "confirmed"
                                     /\ events[n].is_active
                                     /\ DateOf(events[n].start_datetime) = d}}

WindowContained(sp, d, start_time, duration) ==
    \E w \in AvailabilityWindows(sp, d) :
        /\ Combine(d, start_time) >= w[1]
        /\ Combine(d, start_time) + duration <= w[2]

ProbeRequests == BookingRequests(Specialists \cup {3}, DOMAIN Services \cup {4}, OneContact)

HasSpecialist(req) == \E sp \in Specialists : sp = req.specialist_id

HasOwnService(req) ==
    \E k \in DOMAIN Services :
        k = req.service_id /\ Services[k].specialist_id = req.specialist_id

RequestContained(req) ==
    WindowContained(req.specialist_id, req.booking_date, req.start_time,
                    Services[req.service_id].duration)

UncoveredRequestRejected ==
    \A req \in ProbeRequests, fault \in Faults :
        (/\ BookingCreateValid(req)
         /\ HasSpecialist(req)
         /\ HasOwnService(req)
         /\ ~RequestContained(req))
        => LET txn == create_booking_txn(slots, events, Committed, req, fault)
           IN txn.response = ErrNoAvailability /\ txn.db = Committed

BookedInsideAvailability ==
    [][\A k \in NewBookings :
          WindowContained(bookings'[k].specialist_id, bookings'[k].date,
                          bookings'[k].start_time,
                          Services[bookings'[k].service_id].duration)]_vars

BookingNeedsAvailability == []UncoveredRequestRejected /\ BookedInsideAvailability

BookedOnCalendarAvailability ==
    /\ Created
    /\ bookings[Len(bookings)].specialist_id = 1
    /\ slots = <<>>
    /\ \E req \in ProbeRequests :
          /\ BookingCreateValid(req) /\ HasSpecialist(req) /\ HasOwnService(req)
          /\ ~RequestContained(req)

(* C9: the preconditions are checked in the order specialist, service,     *)
(* availability window, overlapping confirmed booking; the error returned  *)
(* is that of the first one that fails, and the four errors are distinct.  *)
RequestClashes(req) ==
    \E b \in DOMAIN bookings :
        /\ bookings[b].specialist_id = req.specialist_id
        /\ bookings[b].date = req.booking_date
        /\ bookings[b].status = "confirmed"
        /\ Overlaps(bookings[b].start_time, bookings[b].end_time, req.start_time,
                    TimeOf(req.start_time + Services[req.service_id].duration))

FirstFailureReported ==
    /\ Cardinality({ErrSpecialist, ErrService, ErrNoAvailability, ErrConflict}) = 4
    /\ \A req \in ProbeRequests :
          BookingCreateValid(req) =>
            LET r == create_booking_txn(slots, events, Committed, req, "none").response
            IN /\ ~HasSpecialist(req) => r = ErrSpecialist
               /\ (HasSpecialist(req) /\ ~HasOwnService(req)) => r = ErrService
               /\ (HasSpecialist(req) /\ HasOwnService(req) /\ ~RequestContained(req))
                      => r = ErrNoAvailability
               /\ (/\ HasSpecialist(req) /\ HasOwnService(req)
                   /\ RequestContained(req) /\ RequestClashes(req))
                      => r = ErrConflict
               /\ (/\ HasSpecialist(req) /\ HasOwnService(req)
                   /\ RequestContained(req) /\ ~RequestClashes(req))
                      => r = Ok

SeveralPreconditionsFail ==
    /\ last.op = "create_booking"
    /\ last.response = ErrNoAvailability
    /\ \E req \in ProbeRequests :
          /\ BookingCreateValid(req) /\ HasSpecialist(req) /\ HasOwnService(req)
          /\ ~RequestContained(req)
          /\ RequestClashes(req)

(* C10: a booking whose client email or phone has the normalised form of   *)
(* an existing consumer's (trimmed lower-case email, digits-only phone)    *)
(* references such a consumer and creates none; hence no two consumers     *)
(* share a normalised email.                                               *)
TrimmedLowerCase(email) == Lower(Strip(email))

DigitsOnly(phone) == SelectSeq(phone, LAMBDA c : c \in Digits)

SamePerson(consumer, email, phone) ==
    \/ /\ TrimmedLowerCase(email) # <<>>
       /\ TrimmedLowerCase(consumer.email) = TrimmedLowerCase(email)
    \/ /\ DigitsOnly(phone) # <<>>
       /\ DigitsOnly(consumer.phone) = DigitsOnly(phone)

KnownAs(email, phone) ==
    {c \in DOMAIN consumers : SamePerson(consumers[c], email, phone)}

ExistingConsumerReused ==
    [][\A k \in NewBookings :
          LET known == KnownAs(bookings'[k].client_email, bookings'[k].client_phone)
          IN known # {} => consumers' = consumers /\ bookings'[k].consumer_id \in known]_vars

UniqueNormalizedEmail ==
    \A c1, c2 \in DOMAIN consumers :
        c1 # c2 => TrimmedLowerCase(consumers[c1].email) # TrimmedLowerCase(consumers[c2].email)

ConsumerConsolidation == []UniqueNormalizedEmail /\ ExistingConsumerReused

ResolvedByNormalizedEmail ==
    /\ Created
    /\ Len(bookings) > Len(consumers)
    /\ LET b == bookings[Len(bookings)]
       IN /\ b.client_email # consumers[b.consumer_id].email
          /\ TrimmedLowerCase(b.client_email) = TrimmedLowerCase(consumers[b.consumer_id].email)

(* C19: a booking whose status is completed or cancelled keeps that status; *)
(* no update_booking_status call makes it confirmed again.                  *)
StatusOneWay ==
    [][\A b \in DOMAIN bookings :
          bookings[b].status \in {"completed", "cancelled"}
          => bookings'[b].status # "confirmed"]_vars

(* C11: when the listed date has a single availability window [s, e) of    *)
(* the specialist, no confirmed booking and no other active event of the   *)
(* specialist touching the window, get_available_time_slots returns        *)
(* exactly the slots [s + k*d, s + (k+1)*d) for k = 0 .. (e - s) \div d - 1 *)
(* of the service duration d, and nothing else.                            *)
SlotWindowRows ==
    {i \in DOMAIN slots : /\ slots[i].specialist_id = last.specialist_id
                          /\ slots[i].date = last.booking_date
                          /\ slots[i].is_available}

EventWindowRows ==
    {j \in DOMAIN events : /\ events[j].specialist_id = last.specialist_id
                           /\ events[j].event_type = "availability"
                           /\ events[j].status = "confirmed"
                           /\ DateOf(events[j].start_datetime) = last.booking_date}

ListedDuration ==
    IF last.service_id # None THEN Services[last.service_id].duration
    ELSE LET own == {Services[k].duration :
                        k \in {n \in DOMAIN Services :
                                  Services[n].specialist_id = last.specialist_id}}
         IN CHOOSE m \in own : \A x \in own : m <= x

Untouched(s, e, source) ==
    /\ ~\E b \in DOMAIN bookings :
          /\ bookings[b].specialist_id = last.specialist_id
          /\ bookings[b].date = last.booking_date
          /\ bookings[b].status = "confirmed"
    /\ ~\E j \in DOMAIN events :
          /\ j # source
          /\ events[j].specialist_id = last.specialist_id
          /\ events[j].is_active
          /\ Overlaps(events[j].start_datetime - events[j].buffer_before,
                      events[j].end_datetime + events[j].buffer_after, s, e)

SteppedSlots(s, e, d) ==
    {[start_time |-> TimeOf(s + k * d), end_time |-> TimeOf(s + (k + 1) * d),
      duration_minutes |-> d] : k \in 0 .. ((e - s) \div d) - 1}

ListingIs(s, e, d) ==
    /\ {last.result[k] : k \in DOMAIN last.result} = SteppedSlots(s, e, d)
    /\ Len(last.result) = Cardinality(SteppedSlots(s, e, d))

SingleSlotWindow(i) ==
    /\ Listed
    /\ SlotWindowRows = {i}
    /\ EventWindowRows = {}
    /\ Untouched(Combine(slots[i].date, slots[i].start_time),
                 Combine(slots[i].date, slots[i].end_time), None)

SingleEventWindow(j) ==
    /\ Listed
    /\ SlotWindowRows = {}
    /\ EventWindowRows = {j}
    /\ events[j].is_active
    /\ Untouched(events[j].start_datetime, events[j].end_datetime, j)

SortedWithoutDuplicates ==
    Listed =>
        \A a, b \in DOMAIN last.result :
            a < b => last.result[a].start_time < last.result[b].start_time

(* Rows of the series that the last create_calendar_event call created *)
SeriesCreated ==
    /\ last.op = "create_calendar_event"
    /\ last.event.is_recurring
    /\ last.event.recurrence_rule # Null

CreatedRule == The(last.event.recurrence_rule)

CreatedBase == CHOOSE i \in DOMAIN events :
                   events[i].is_recurring /\ \A j \in DOMAIN events :
                                                events[j].is_recurring => j <= i

CreatedInstances == {i \in DOMAIN events : i > CreatedBase}

(* C13: a WEEKLY rule with interval 1, a byweekday filter, count N and no   *)
(* until, on a base that starts on a listed weekday and has the calendar   *)
(* to itself, yields exactly N instances, on the next N dates after the    *)
(* base whose weekday is listed, each at the base's time of day.           *)
ListedDatesAfter(d0, byweekday, n) ==
    {d \in d0 + 1 .. d0 + DaysPerWeek * n :
        /\ Weekday(d) \in byweekday
        /\ Cardinality({x \in d0 + 1 .. d : Weekday(x) \in byweekday}) <= n}

WeeklyCountCase ==
    /\ SeriesCreated
    /\ CreatedRule.freq = "WEEKLY"
    /\ CreatedRule.interval = 1
    /\ CreatedRule.byweekday # {}
    /\ CreatedRule.count \notin {Null, Some(0)}
    /\ CreatedRule.until = Null
    /\ Weekday(DateOf(last.event.start_datetime)) \in CreatedRule.byweekday
    /\ CreatedBase = 1

WeeklyCountExpansion ==
    WeeklyCountCase =>
        /\ Cardinality(CreatedInstances) = The(CreatedRule.count)
        /\ {events[i].start_datetime : i \in CreatedInstances}
           = {Combine(d, TimeOf(last.event.start_datetime)) :
                 d \in ListedDatesAfter(DateOf(last.event.start_datetime),
                                        CreatedRule.byweekday, The(CreatedRule.count))}

(* C14: a rule whose freq is neither DAILY nor WEEKLY is not expanded: the  *)
(* base event is stored and no instance row is generated for it.           *)
UnsupportedFrequencyNotExpanded ==
    (SeriesCreated /\ CreatedRule.freq \notin {"DAILY", "WEEKLY"})
    => /\ events[CreatedBase].start_datetime = last.event.start_datetime
       /\ CreatedInstances = {}

(* C15: right after create_calendar_event with a recurrence rule, no        *)
(* generated instance overlaps an active event of the specialist that was  *)
(* there before the call, nor the base event; an occurrence that is clear  *)
(* of all of them, buffers included, is materialised (stated for DAILY     *)
(* rules with interval 1 and an until date, whose occurrences are the days *)
(* after the base up to until).                                            *)
EarlierActive ==
    {j \in DOMAIN events : /\ j <= CreatedBase
                           /\ events[j].is_active
                           /\ events[j].specialist_id = events[CreatedBase].specialist_id}

OccurrenceOn(d) ==
    LET start == Combine(d, TimeOf(last.event.start_datetime))
    IN <<start, start + last.event.len>>

HitsEarlier(iv, padded) ==
    \E j \in EarlierActive :
        Overlaps(events[j].start_datetime - (IF padded THEN events[j].buffer_before ELSE 0),
                 events[j].end_datetime + (IF padded THEN events[j].buffer_after ELSE 0),
                 iv[1], iv[2])

DailyUntilCase ==
    /\ SeriesCreated
    /\ CreatedRule.freq = "DAILY"
    /\ CreatedRule.interval = 1
    /\ CreatedRule.byweekday = {}
    /\ CreatedRule.until # Null
    /\ CreatedRule.count = Null

DailyDates == DateOf(last.event.start_datetime) + 1 .. The(CreatedRule.until)

CollidingOccurrencesSkipped ==
    /\ SeriesCreated =>
          \A i \in CreatedInstances :
              ~HitsEarlier(<<events[i].start_datetime, events[i].end_datetime>>, FALSE)
    /\ DailyUntilCase =>
          \A d \in DailyDates :
              ~HitsEarlier(OccurrenceOn(d), TRUE)
              => \E i \in CreatedInstances :
                    events[i].start_datetime = OccurrenceOn(d)[1]

OccurrenceSkippedOthersKept ==
    /\ DailyUntilCase
    /\ CreatedBase > 1
    /\ \E d \in DailyDates : HitsEarlier(OccurrenceOn(d), FALSE)
    /\ CreatedInstances # {}

(* C16: every generated instance lasts as long as its base event and its   *)
(* original_start is its start_datetime.                                   *)
InstanceKeepsDuration ==
    \A i \in DOMAIN events :
        events[i].original_start # Null
        => LET base == events[events[i].recurring_event_id]
           IN /\ events[i].end_datetime
                 = events[i].start_datetime + (base.end_datetime - base.start_datetime)
              /\ events[i].original_start = Some(events[i].start_datetime)

LongInstanceGenerated ==
    /\ SeriesCreated
    /\ last.event.len > DayLen
    /\ CreatedInstances # {}

(* Exceptions stored for an event on its start date, oldest first *)
EventsListed == last.op = "get_calendar_events" /\ last.response = Ok

ExceptionsOnStartDate(i) ==
    {x \in DOMAIN exceptions :
        /\ exceptions[x].event_id = i
        /\ exceptions[x].exception_date = DateOf(events[i].start_datetime)}

FirstException(i) ==
    exceptions[CHOOSE x \in ExceptionsOnStartDate(i) :
                   \A y \in ExceptionsOnStartDate(i) : x <= y]

Stored(i) ==
    [f \in DOMAIN events[i] \cup {"id"} |-> IF f = "id" THEN i ELSE events[i][f]]

Overridden(i, exception) ==
    [f \in DOMAIN Stored(i) |->
        IF f = "start_datetime" /\ exception.new_start_datetime # Null
        THEN The(exception.new_start_datetime)
        ELSE IF f = "end_datetime" /\ exception.new_end_datetime # Null
        THEN The(exception.new_end_datetime)
        ELSE IF f = "title" /\ exception.new_title # Null THEN exception.new_title
        ELSE IF f = "description" /\ exception.new_description # Null
        THEN exception.new_description
        ELSE Stored(i)[f]]

FirstOverrideApplied ==
    (EventsListed /\ last.include_recurring) =>
        \A k \in DOMAIN last.result :
            LET i == last.result[k].id
            IN IF ExceptionsOnStartDate(i) = {}
               THEN last.result[k] = Stored(i)
               ELSE FirstException(i).exception_type \in {"modified", "moved"}
                    => last.result[k] = Overridden(i, FirstException(i))

(* C20: after update_calendar_event with modify_series on an event of a    *)
(* recurring series, every active row with that recurring_event_id, base   *)
(* and instances, carries the values of the patch.                         *)
SeriesUpdated ==
    /\ last.op = "update_calendar_event"
    /\ last.response = Ok
    /\ last.modify_series
    /\ events[last.event_id].recurring_event_id # None

SeriesPatchApplied ==
    SeriesUpdated =>
        \A j \in DOMAIN events :
            (/\ events[j].recurring_event_id = events[last.event_id].recurring_event_id
             /\ events[j].is_active)
            => \A f \in DOMAIN last.event_update : events[j][f] = last.event_update[f]

(* C21: a successful delete_calendar_event deactivates exactly the         *)
(* intended rows: with delete_series on an event of a recurring series,    *)
(* every row sharing its recurring_event_id; otherwise the addressed row   *)
(* only.  Every other row is unchanged and no row is removed.              *)
IntendedRows(event_id, delete_series) ==
    IF delete_series /\ events[event_id].recurring_event_id # None
    THEN {i \in DOMAIN events :
             events[i].recurring_event_id = events[event_id].recurring_event_id}
    ELSE {event_id}

DeleteDeactivatesIntendedRows ==
    [][\A event_id \in 1 .. MaxAddressed, delete_series \in BOOLEAN :
          (delete_calendar_event(1, event_id, delete_series) /\ last'.response = Ok)
          => /\ DOMAIN events' = DOMAIN events
             /\ \A i \in DOMAIN events :
                   events'[i] = IF i \in IntendedRows(event_id, delete_series)
                                THEN [events[i] EXCEPT !.is_active = FALSE]
                                ELSE events[i]]_vars

(* C22: every stored calendar event, and every event returned by           *)
(* get_calendar_events, ends after it starts.                              *)
EndsAfterStart(event) == event.end_datetime > event.start_datetime

EventsEndAfterStart ==
    /\ \A i \in DOMAIN events : EndsAfterStart(events[i])
    /\ EventsListed => \A k \in DOMAIN last.result : EndsAfterStart(last.result[k])

(* C26: a successful update_calendar_event with modify_series = false on   *)
(* an event of a recurring series appends exactly one exception, for that  *)
(* event and its start date, keeps the exceptions stored before, and       *)
(* leaves every calendar event row unchanged.                              *)
InstanceEditStoresOneException ==
    [][\A event_id \in 1 .. MaxAddressed, event_update \in SeriesUpdates :
          (/\ update_calendar_event(1, event_id, event_update, FALSE)
           /\ last'.response = Ok
           /\ events[event_id].recurring_event_id # None)
          => /\ events' = events
             /\ Len(exceptions') = Len(exceptions) + 1
             /\ SubSeq(exceptions', 1, Len(exceptions)) = exceptions
             /\ exceptions'[Len(exceptions')].event_id = event_id
             /\ exceptions'[Len(exceptions')].exception_date
                = DateOf(events[event_id].start_datetime)]_vars

(* C28: no generated instance starts at the base event's start, and when   *)
(* the base event's weekday is not in the byweekday filter of a DAILY or   *)
(* WEEKLY rule with interval 1 and an until date, every date after the     *)
(* base up to until whose weekday is listed has its instance, unless the   *)
(* occurrence collides with an earlier event.                              *)
OffWeekdayCase ==
    /\ SeriesCreated
    /\ CreatedRule.freq \in {"DAILY", "WEEKLY"}
    /\ CreatedRule.interval = 1
    /\ CreatedRule.byweekday # {}
    /\ Weekday(DateOf(last.event.start_datetime)) \notin CreatedRule.byweekday
    /\ CreatedRule.until # Null
    /\ CreatedRule.count = Null

ListedDates ==
    {d \in DateOf(last.event.start_datetime) + 1 .. The(CreatedRule.until) :
        Weekday(d) \in CreatedRule.byweekday}

EveryListedDateAfterBaseEmitted ==
    /\ SeriesCreated =>
          \A i \in CreatedInstances :
              events[i].start_datetime # last.event.start_datetime
    /\ OffWeekdayCase =>
          \A d \in ListedDates :
              ~HitsEarlier(OccurrenceOn(d), TRUE)
              => \E i \in CreatedInstances :
                    events[i].start_datetime = OccurrenceOn(d)[1]

(* C25: in one listing, every slot lasts exactly the service duration and  *)
(* two different slots do not overlap.                                     *)
ListedSlotsDisjoint ==
    Listed =>
        /\ \A a \in DOMAIN last.result :
              last.result[a].end_time - last.result[a].start_time = ListedDuration
        /\ \A a, b \in DOMAIN last.result :
              last.result[a] # last.result[b]
              => ~Overlaps(last.result[a].start_time, last.result[a].end_time,
                           last.result[b].start_time, last.result[b].end_time)

(* C27: every stored booking has start_time < end_time on its date.        *)
BookingEndsSameDay ==
    \A b \in DOMAIN bookings : bookings[b].start_time < bookings[b].end_time

(* The last call was find_smart_availability; the instants its walk        *)
(* visited, and the two tests of the claim stated on the tables            *)
Suggested == last.op = "find_smart_availability" /\ last.response = Ok

WalkIncrement ==
    LET k == active_preferences(preferences, last.specialist_id)
    IN IF k = Null THEN DefaultIncrement ELSE preferences[The(k)].slot_increment

Visited ==
    {t \in last.query.start_datetime ..
           last.query.end_datetime - last.query.duration_minutes :
        (t - last.query.start_datetime) % WalkIncrement = 0}

InsideWorkingHours(t) ==
    \E w \in DOMAIN working_hours :
        /\ working_hours[w].specialist_id = last.specialist_id
        /\ working_hours[w].is_active
        /\ working_hours[w].day_of_week = Weekday(DateOf(t))
        /\ working_hours[w].is_working_day
        /\ \E r \in DOMAIN working_hours[w].time_ranges :
              LET tr == working_hours[w].time_ranges[r]
              IN /\ tr.start_time # Null /\ tr.end_time # Null
                 /\ The(tr.start_time) <= TimeOf(t) /\ TimeOf(t) <= The(tr.end_time)

FreeOfEvents(t) ==
    ~\E i \in DOMAIN events :
        /\ events[i].specialist_id = last.specialist_id
        /\ events[i].is_active
        /\ Overlaps(events[i].start_datetime, events[i].end_datetime,
                    t, t + last.query.duration_minutes)

PassingInstants == {t \in Visited : InsideWorkingHours(t) /\ FreeOfEvents(t)}

ReturnedInstants == {last.result[k].suggested_datetime : k \in DOMAIN last.result}

ScoreOf(t) ==
    LET k == active_preferences(preferences, last.specialist_id)
    IN calculate_confidence_score(events, last.specialist_id, t,
                                  IF k = Null THEN Null ELSE Some(preferences[The(k)]),
                                  last.now)

TopSuggestionsByScore ==
    Suggested =>
        /\ Len(last.result) <= TopSuggestions
        /\ \A a, b \in DOMAIN last.result :
              a < b => last.result[a].confidence_score >= last.result[b].confidence_score
        /\ \A t \in PassingInstants \ ReturnedInstants :
              \A k \in DOMAIN last.result : ScoreOf(t) <= last.result[k].confidence_score

SuggestionsLeftOut ==
    /\ Suggested
    /\ Len(last.result) = TopSuggestions
    /\ PassingInstants \ ReturnedInstants # {}
    /\ last.result[1].confidence_score > last.result[TopSuggestions].confidence_score
    /\ \E a, b \in DOMAIN last.result :
          /\ a < b
          /\ last.result[a].suggested_datetime > last.result[b].suggested_datetime

(* C30: only the most recent working-hours row of a weekday decides: every *)
(* suggestion starts on a weekday whose latest row is a working day with a *)
(* time range containing the instant.                                      *)
LatestHours(weekday) ==
    LET own == {w \in DOMAIN working_hours :
                   /\ working_hours[w].specialist_id = last.specialist_id
                   /\ working_hours[w].day_of_week = weekday}
    IN CHOOSE w \in own : \A x \in own : x <= w

LatestWorkingHoursDecide ==
    Suggested =>
        \A k \in DOMAIN last.result :
            LET t == last.result[k].suggested_datetime
                latest == working_hours[LatestHours(Weekday(DateOf(t)))]
            IN /\ latest.is_working_day
               /\ \E r \in DOMAIN latest.time_ranges :
                     /\ The(latest.time_ranges[r].start_time) <= TimeOf(t)
                     /\ TimeOf(t) <= The(latest.time_ranges[r].end_time)

(* C29: the walk of a started find_smart_availability call with           *)
(* start_datetime <= end_datetime eventually passes end_datetime, so that  *)
(* the loop is left.                                                       *)
Walking ==
    /\ inflight[1].pc = "walking"
    /\ inflight[1].query.start_datetime <= inflight[1].query.end_datetime

LoopLeft == IF inflight[1].pc = "walking" THEN ~InLoop(inflight[1]) ELSE TRUE

WalkTerminates == Walking ~> LoopLeft

====
